---- MODULE Spec2Model ----
(***************************************************************************)
(* Model of wagtailbakery/admin_views.py: the admin view that builds the   *)
(* static site and optionally publishes it to S3, in its two forms: the    *)
(* redirect-with-flash-messages handler (bakery_admin_view) and the        *)
(* Server-Sent-Events generator (_run_bakery_stream).                      *)
(*                                                                         *)
(* One request is handled at a time.  The inputs of a request are the      *)
(* process environment, the Django settings, the request itself and the    *)
(* outcome (return or raise) of each management command.  A management     *)
(* command is an external collaborator: its invocation and its completion  *)
(* are two steps, so that "in progress" is a state of the model.           *)
(***************************************************************************)
EXTENDS Integers, Sequences, FiniteSets, TLC

VARIABLES
    environ,    \* os.environ: a function from the variables that are set to strings
    settings,   \* django.conf.settings: a function from the attributes that exist
    request,    \* [method, POST, headers]
    fails,      \* the names of the management commands that raise when called
    pc,         \* position of the handler / generator
    calls,      \* the call_command invocations of this request, in order
    events,     \* the SSE frames yielded by _run_bakery_stream, in order
    msgs,       \* the flash messages added to the request, in order
    response,   \* the HTTP response returned by bakery_admin_view, or None
    submitted,  \* how many times the request has been submitted
    prev        \* the outcome of the previous submission of the same request, or None

vars == <<environ, settings, request, fails, pc, calls, events, msgs, response,
          submitted, prev>>

\* The same request is submitted this many times, alternating its Accept header.
MaxRequests == 2

-----------------------------------------------------------------------------
(* Python values that may be None are tagged; environment strings are plain. *)

None == [t |-> "None"]
Str(s) == [t |-> "str", v |-> s]
Num(n) == [t |-> "int", v |-> n]
Bool(b) == [t |-> "bool", v |-> b]
Dict(d) == [t |-> "dict", v |-> d]

\* mutant: the test is `is not None` instead of truthiness
Truthy_notnone(x) == x.t # "None"

\* Python truthiness (bool(x), `if x:`) of a tagged value
Truthy(x) ==
    CASE x.t = "None" -> FALSE
      [] x.t = "str"  -> x.v # ""
      [] x.t = "int"  -> x.v # 0
      [] x.t = "bool" -> x.v
      [] x.t = "dict" -> DOMAIN x.v # {}

\* mapping.get(key, default) and getattr(obj, name, default)
Get(m, key, default) == IF key \in DOMAIN m THEN m[key] ELSE default

\* isinstance(val, dict) / isinstance(val, str)
IsDict(val) == val.t = "dict"
IsStr(val) == val.t = "str"

-----------------------------------------------------------------------------
(* Input domains *)

BucketValues == {"", "my-site"}
FallbackValues == {"", "legacy-site"}

Environs ==
    {e1 @@ e2 :
        e1 \in {<<>>} \cup {[BAKERY_AWS_BUCKET_NAME |-> b] : b \in BucketValues},
        e2 \in {<<>>} \cup {[AWS_BUCKET_NAME |-> b] : b \in FallbackValues}}

\* the management command a post-publish setting can name
PostCommands == {"purge"}

CommandValues == {Str("")} \cup {Str(c) : c \in PostCommands}
TitleValues == {None, Str("Purge cache")}

Descriptors ==
    {d1 @@ d2 :
        d1 \in {<<>>} \cup {[command |-> c] : c \in CommandValues},
        d2 \in {<<>>} \cup {[title |-> t] : t \in TitleValues}}

PostPublishValues ==
    {None, Num(7)} \cup CommandValues \cup {Dict(d) : d \in Descriptors}

SettingsSet ==
    {s1 @@ s2 :
        s1 \in {<<>>} \cup {[BAKERY_POST_PUBLISH_COMMAND |-> v] : v \in PostPublishValues},
        s2 \in {<<>>} \cup {[BAKERY_SKIP_STATIC |-> Bool(TRUE)]}}

\* request.headers: no Accept header, or an Accept header string
PlainHeaders == <<>>
StreamHeaders == [Accept |-> "text/event-stream"]
AcceptValues ==
    {"text/html, */*", "text/event-stream", "text/event-stream;q=0.9, */*",
     "text/event-streaming"}
HeadersSet == {PlainHeaders} \cup {[Accept |-> a] : a \in AcceptValues}

Requests ==
    {[method |-> "GET", POST |-> <<>>, headers |-> h] : h \in {PlainHeaders}}
    \cup
    {[method |-> "POST", POST |-> p, headers |-> h] :
        p \in {<<>>} \cup {[action |-> Str(a)] : a \in {"build", "build_publish", "deploy"}},
        h \in HeadersSet}

Commands == {"build", "publish"} \cup PostCommands

\* str(e) of the exception a failing command raises
ErrText(name) == name \o " command error"

-----------------------------------------------------------------------------
(* Pure functions of admin_views.py *)

\* mutant: the fallback default is a bucket name instead of the empty string
get_bucket_name_default(env) ==
    Get(env, "BAKERY_AWS_BUCKET_NAME", Get(env, "AWS_BUCKET_NAME", "my-site"))

\* mutant: the two variables are consulted in the opposite order
get_bucket_name_swapped(env) ==
    Get(env, "AWS_BUCKET_NAME", Get(env, "BAKERY_AWS_BUCKET_NAME", ""))

get_bucket_name(env) ==
    Get(env, "BAKERY_AWS_BUCKET_NAME", Get(env, "AWS_BUCKET_NAME", ""))

\* mutant: a descriptor without a title gets no default label
_get_post_publish_command_notitle(s) ==
    LET val == Get(s, "BAKERY_POST_PUBLISH_COMMAND", None) IN
    IF val = None THEN <<None, None>>
    ELSE IF IsDict(val)
         THEN <<Get(val.v, "command", None), Get(val.v, "title", None)>>
    ELSE IF IsStr(val) THEN <<val, Str("Post-publish")>>
    ELSE <<None, None>>

\* returns the pair <<command, title>>
_get_post_publish_command(s) ==
    LET val == Get(s, "BAKERY_POST_PUBLISH_COMMAND", None) IN
    IF val = None THEN <<None, None>>
    ELSE IF IsDict(val)
         THEN <<Get(val.v, "command", None), Get(val.v, "title", Str("Post-publish"))>>
    ELSE IF IsStr(val) THEN <<val, Str("Post-publish")>>
    ELSE <<None, None>>

\* f"data: {json.dumps(data)}\n\n": the frame around the JSON object
_sse_event(data) == <<"data: ", data, "\n\n">>

\* the JSON object carried by a frame
Payload(frame) == frame[2]

\* build_kwargs: skip_static=True when settings.BAKERY_SKIP_STATIC is truthy
build_kwargs(s) ==
    IF Truthy(Get(s, "BAKERY_SKIP_STATIC", Bool(FALSE)))
    THEN [skip_static |-> TRUE] ELSE <<>>

\* mutant: any action that is present is accepted
ValidAction_lax(action) == action # None

\* action in ("build", "build_publish")
ValidAction(action) == action \in {Str("build"), Str("build_publish")}

\* Python's `needle in hay` on strings: needle occurs as a substring of hay
Contains(needle, hay) ==
    \E i \in 0..(Len(hay) - Len(needle)) : SubSeq(hay, i + 1, i + Len(needle)) = needle

\* "text/event-stream" in request.headers.get("Accept", "")
WantsStream(req) == Contains("text/event-stream", Get(req.headers, "Accept", ""))

-----------------------------------------------------------------------------
(* Locals of the handler, all read once from the inputs of the request *)

action == Get(request.POST, "action", None)
bucket_name == get_bucket_name(environ)
post_cmd == _get_post_publish_command(settings)[1]
post_cmd_title == _get_post_publish_command(settings)[2]

Redirect == [kind |-> "redirect", to |-> "wagtailbakery_admin"]
StreamingHttpResponse ==
    [kind |-> "stream", content_type |-> "text/event-stream",
     cache_control |-> "no-cache", x_accel_buffering |-> "no"]
Render ==
    [kind |-> "render", template |-> "wagtailbakery/admin.html",
     context |-> [bucket_name |-> IF bucket_name # "" THEN bucket_name ELSE "(not set)",
                  bucket_configured |-> bucket_name # "",
                  post_publish_command |-> post_cmd,
                  post_publish_command_title |->
                      IF Truthy(post_cmd_title) THEN post_cmd_title
                      ELSE Str("Post-publish")]]

\* messages.<level>(request, message, extra_tags="")
Message(level, message, extra_tags) ==
    [level |-> level, message |-> message, extra_tags |-> extra_tags]

\* call_command(name, **kwargs) has been entered
Invoke(name, kwargs) ==
    calls' = Append(calls, [name |-> name, kwargs |-> kwargs, state |-> "running"])

\* the command in progress returns, or raises
Finish(state) == calls' = [calls EXCEPT ![Len(calls)].state = state]

Raises(name) == name \in fails

-----------------------------------------------------------------------------
Init ==
    /\ environ \in Environs
    /\ settings \in SettingsSet
    /\ request \in Requests
    /\ fails \in SUBSET Commands
    /\ pc = "request"
    /\ calls = <<>>
    /\ events = <<>>
    /\ msgs = <<>>
    /\ response = None
    /\ submitted = 1
    /\ prev = None

Inputs == <<environ, settings, request, fails, submitted, prev>>

-----------------------------------------------------------------------------
(* bakery_admin_view, up to the choice of a branch (lines 115-133, 210-219) *)

bakery_admin_view ==
    /\ pc = "request"
    /\ UNCHANGED <<Inputs, calls, events>>
    /\ IF request.method = "POST"
       THEN IF ~ValidAction(action)
            THEN /\ msgs' = Append(msgs, Message("error", "Invalid action.", ""))
                 /\ response' = Redirect
                 /\ pc' = "done"
            ELSE IF WantsStream(request)
            THEN /\ response' = StreamingHttpResponse
                 /\ pc' = "s_start"
                 /\ UNCHANGED msgs
            ELSE /\ pc' = "v_build"
                 /\ UNCHANGED <<msgs, response>>
       ELSE /\ response' = Render
            /\ pc' = "done"
            /\ UNCHANGED msgs

-----------------------------------------------------------------------------
(* _run_bakery_stream(action, bucket_name): one action per resumption of   *)
(* the generator, a call_command split into its invocation and its end.    *)

Yield(data) == events' = Append(events, _sse_event(data))

\* the handler of `except Exception as e` at lines 101-103
StreamFailed(name) ==
    /\ Yield([step |-> "done", success |-> FALSE, message |-> ErrText(name)])
    /\ pc' = "done"

\* mutant: the running record of the build step is not emitted
stream_build_running_silent ==
    /\ pc = "s_start"
    /\ UNCHANGED <<Inputs, calls, msgs, response, events>>
    /\ pc' = IF ValidAction(action) THEN "s_build_call" ELSE "s_after_build"

\* lines 68-69
stream_build_running ==
    /\ pc = "s_start"
    /\ UNCHANGED <<Inputs, calls, msgs, response>>
    /\ IF ValidAction(action)
       THEN /\ Yield([step |-> "build", status |-> "running", label |-> Str("Build")])
            /\ pc' = "s_build_call"
       ELSE /\ pc' = "s_after_build"
            /\ UNCHANGED events

\* line 71, entering the command
stream_build_call ==
    /\ pc = "s_build_call"
    /\ Invoke("build", build_kwargs(settings))
    /\ pc' = "s_build_wait"
    /\ UNCHANGED <<Inputs, events, msgs, response>>

\* mutant: the failure of the build is reported as a step error and the run goes on
stream_build_return_swallow ==
    /\ pc = "s_build_wait"
    /\ UNCHANGED <<Inputs, msgs, response>>
    /\ pc' = "s_after_build"
    /\ IF Raises("build")
       THEN /\ Finish("raised")
            /\ Yield([step |-> "build", status |-> "error", label |-> Str("Build"),
                      message |-> ErrText("build")])
       ELSE /\ Finish("returned")
            /\ Yield([step |-> "build", status |-> "complete", label |-> Str("Build")])

\* lines 71-73, or 101-103 when the command raises
stream_build_return ==
    /\ pc = "s_build_wait"
    /\ UNCHANGED <<Inputs, msgs, response>>
    /\ IF Raises("build")
       THEN /\ Finish("raised")
            /\ StreamFailed("build")
       ELSE /\ Finish("returned")
            /\ Yield([step |-> "build", status |-> "complete", label |-> Str("Build")])
            /\ pc' = "s_after_build"

\* mutant: the publish branch is entered for every valid action
stream_after_build_always ==
    /\ pc = "s_after_build"
    /\ UNCHANGED <<Inputs, calls, msgs, response>>
    /\ IF ValidAction(action)
       THEN IF bucket_name = ""
            THEN /\ Yield([step |-> "error", message |-> "S3 bucket not configured"])
                 /\ pc' = "done"
            ELSE /\ Yield([step |-> "sync", status |-> "running", label |-> Str("Sync to S3")])
                 /\ pc' = "s_publish_call"
       ELSE /\ Yield([step |-> "done", success |-> TRUE])
            /\ pc' = "done"

\* lines 75-80, or line 100 for action "build"
stream_after_build ==
    /\ pc = "s_after_build"
    /\ UNCHANGED <<Inputs, calls, msgs, response>>
    /\ IF action = Str("build_publish")
       THEN IF bucket_name = ""
            THEN /\ Yield([step |-> "error", message |-> "S3 bucket not configured"])
                 /\ pc' = "done"
            ELSE /\ Yield([step |-> "sync", status |-> "running", label |-> Str("Sync to S3")])
                 /\ pc' = "s_publish_call"
       ELSE /\ Yield([step |-> "done", success |-> TRUE])
            /\ pc' = "done"

\* line 82, entering the command
stream_publish_call ==
    /\ pc = "s_publish_call"
    /\ Invoke("publish", [aws_bucket_name |-> bucket_name])
    /\ pc' = "s_publish_wait"
    /\ UNCHANGED <<Inputs, events, msgs, response>>

\* mutant: a failed publish is tried once more
stream_publish_return_retry ==
    /\ pc = "s_publish_wait"
    /\ UNCHANGED <<Inputs, msgs, response>>
    /\ IF Raises("publish")
       THEN /\ Finish("raised")
            /\ IF Len(calls) < 3
               THEN pc' = "s_publish_call" /\ UNCHANGED events
               ELSE /\ Yield([step |-> "done", success |-> FALSE,
                              message |-> ErrText("publish")])
                    /\ pc' = "done"
       ELSE /\ Finish("returned")
            /\ Yield([step |-> "sync", status |-> "complete", label |-> Str("Sync to S3")])
            /\ pc' = "s_after_sync"

\* lines 82-84, or 101-103 when the command raises
stream_publish_return ==
    /\ pc = "s_publish_wait"
    /\ UNCHANGED <<Inputs, msgs, response>>
    /\ IF Raises("publish")
       THEN /\ Finish("raised")
            /\ StreamFailed("publish")
       ELSE /\ Finish("returned")
            /\ Yield([step |-> "sync", status |-> "complete", label |-> Str("Sync to S3")])
            /\ pc' = "s_after_sync"

\* lines 86-88, or line 100 when no post-publish command is configured
stream_after_sync ==
    /\ pc = "s_after_sync"
    /\ UNCHANGED <<Inputs, calls, msgs, response>>
    /\ IF Truthy(post_cmd)
       THEN /\ Yield([step |-> "post_publish", status |-> "running", label |-> post_cmd_title])
            /\ pc' = "s_post_call"
       ELSE /\ Yield([step |-> "done", success |-> TRUE])
            /\ pc' = "done"

\* line 91, entering the command
stream_post_call ==
    /\ pc = "s_post_call"
    /\ Invoke(post_cmd.v, <<>>)
    /\ pc' = "s_post_wait"
    /\ UNCHANGED <<Inputs, events, msgs, response>>

\* lines 91-93, or 94-96 when the command raises
stream_post_return ==
    /\ pc = "s_post_wait"
    /\ UNCHANGED <<Inputs, msgs, response>>
    /\ IF Raises(post_cmd.v)
       THEN /\ Finish("raised")
            /\ Yield([step |-> "post_publish", status |-> "error", label |-> post_cmd_title,
                      message |-> ErrText(post_cmd.v)])
            /\ pc' = "s_post_failed"
       ELSE /\ Finish("returned")
            /\ Yield([step |-> "post_publish", status |-> "complete", label |-> post_cmd_title])
            /\ pc' = "s_post_complete"

\* mutant: the stream ends with success true after a failed post-publish command
stream_post_failed_success ==
    /\ pc = "s_post_failed"
    /\ Yield([step |-> "done", success |-> TRUE])
    /\ pc' = "done"
    /\ UNCHANGED <<Inputs, calls, msgs, response>>

\* lines 97-98
stream_post_failed ==
    /\ pc = "s_post_failed"
    /\ Yield([step |-> "done", success |-> FALSE,
              message |-> "Post-publish failed: " \o ErrText(post_cmd.v)])
    /\ pc' = "done"
    /\ UNCHANGED <<Inputs, calls, msgs, response>>

\* line 100, after a successful post-publish command
stream_done ==
    /\ pc = "s_post_complete"
    /\ Yield([step |-> "done", success |-> TRUE])
    /\ pc' = "done"
    /\ UNCHANGED <<Inputs, calls, msgs, response>>

-----------------------------------------------------------------------------
(* bakery_admin_view, the non-streaming POST branch (lines 135-208) *)

AddMessage(level, message, extra_tags) ==
    msgs' = Append(msgs, Message(level, message, extra_tags))

\* mutant: the failure is logged only, no message is added
ViewFailed_silent(name) ==
    /\ UNCHANGED msgs
    /\ response' = Redirect
    /\ pc' = "done"

\* the handler of `except Exception as e` at lines 201-208
ViewFailed(name) ==
    /\ AddMessage("error", "Build failed: " \o ErrText(name), "")
    /\ response' = Redirect
    /\ pc' = "done"

\* mutant: the bucket is checked before the build is run
view_build_call_checkfirst ==
    /\ pc = "v_build"
    /\ ValidAction(action)
    /\ UNCHANGED <<Inputs, events>>
    /\ IF action = Str("build_publish") /\ bucket_name = ""
       THEN /\ msgs' = Append(msgs, Message("error",
                          "S3 bucket not configured. Set BAKERY_AWS_BUCKET_NAME "
                          \o "or AWS_BUCKET_NAME in the environment.", ""))
            /\ response' = Redirect
            /\ pc' = "done"
            /\ UNCHANGED calls
       ELSE /\ Invoke("build", build_kwargs(settings))
            /\ pc' = "v_build_wait"
            /\ UNCHANGED <<msgs, response>>

\* mutant: skip_static is not passed to the build command
view_build_call_nokwargs ==
    /\ pc = "v_build"
    /\ ValidAction(action)
    /\ Invoke("build", <<>>)
    /\ pc' = "v_build_wait"
    /\ UNCHANGED <<Inputs, events, msgs, response>>

\* lines 139-143, entering the command
view_build_call ==
    /\ pc = "v_build"
    /\ ValidAction(action)
    /\ Invoke("build", build_kwargs(settings))
    /\ pc' = "v_build_wait"
    /\ UNCHANGED <<Inputs, events, msgs, response>>

\* mutant: the failure of the build is reported but the handler goes on to publish
view_build_return_swallow ==
    /\ pc = "v_build_wait"
    /\ UNCHANGED <<Inputs, events>>
    /\ IF Raises("build")
       THEN /\ Finish("raised")
            /\ AddMessage("error", "Build failed: " \o ErrText("build"), "")
       ELSE /\ Finish("returned")
            /\ AddMessage("success", "Build completed successfully.", "")
    /\ IF action = Str("build_publish") /\ bucket_name # ""
       THEN /\ pc' = "v_publish"
            /\ UNCHANGED response
       ELSE /\ response' = Redirect
            /\ pc' = "done"

\* lines 143-160, or 201-208 when the command raises
view_build_return ==
    /\ pc = "v_build_wait"
    /\ UNCHANGED <<Inputs, events>>
    /\ IF Raises("build")
       THEN /\ Finish("raised")
            /\ ViewFailed("build")
       ELSE /\ Finish("returned")
            /\ IF action = Str("build_publish")
               THEN IF bucket_name = ""
                    THEN /\ msgs' = msgs \o
                              << Message("success", "Build completed successfully.", ""),
                                 Message("error",
                                     "S3 bucket not configured. Set BAKERY_AWS_BUCKET_NAME "
                                     \o "or AWS_BUCKET_NAME in the environment.", "") >>
                         /\ response' = Redirect
                         /\ pc' = "done"
                    ELSE /\ AddMessage("success", "Build completed successfully.", "")
                         /\ pc' = "v_publish"
                         /\ UNCHANGED response
               ELSE /\ AddMessage("success", "Build completed successfully.", "")
                    /\ response' = Redirect
                    /\ pc' = "done"

\* lines 162-169, entering the command
view_publish_call ==
    /\ pc = "v_publish"
    /\ Invoke("publish", [aws_bucket_name |-> bucket_name])
    /\ pc' = "v_publish_wait"
    /\ UNCHANGED <<Inputs, events, msgs, response>>

\* lines 164-183, or 201-208 when the command raises
view_publish_return ==
    /\ pc = "v_publish_wait"
    /\ UNCHANGED <<Inputs, events>>
    /\ IF Raises("publish")
       THEN /\ Finish("raised")
            /\ ViewFailed("publish")
       ELSE /\ Finish("returned")
            /\ AddMessage("success", "Build and publish to S3 completed successfully.", "")
            /\ IF Truthy(post_cmd)
               THEN /\ pc' = "v_post"
                    /\ UNCHANGED response
               ELSE /\ response' = Redirect
                    /\ pc' = "done"

\* lines 184-187, entering the command
view_post_call ==
    /\ pc = "v_post"
    /\ Invoke(post_cmd.v, <<>>)
    /\ pc' = "v_post_wait"
    /\ UNCHANGED <<Inputs, events, msgs, response>>

\* mutant: the failure of the post-publish command is reported as an error
view_post_return_error ==
    /\ pc = "v_post_wait"
    /\ UNCHANGED <<Inputs, events>>
    /\ response' = Redirect
    /\ pc' = "done"
    /\ IF Raises(post_cmd.v)
       THEN /\ Finish("raised")
            /\ AddMessage("error", "Build failed: " \o ErrText(post_cmd.v), "")
       ELSE /\ Finish("returned")
            /\ AddMessage("success",
                          "Build, publish to S3, and frontend cache purge completed.", "")

\* lines 187-199 and 208; the warning passes the exception as extra_tags
view_post_return ==
    /\ pc = "v_post_wait"
    /\ UNCHANGED <<Inputs, events>>
    /\ response' = Redirect
    /\ pc' = "done"
    /\ IF Raises(post_cmd.v)
       THEN /\ Finish("raised")
            /\ AddMessage("warning", "Build and publish succeeded, but purge failed: %s",
                          ErrText(post_cmd.v))
       ELSE /\ Finish("returned")
            /\ AddMessage("success",
                          "Build, publish to S3, and frontend cache purge completed.", "")

-----------------------------------------------------------------------------
(* The outcome of a finished request, and its resubmission *)

\* the commands invoked, with their arguments, in order
Invocations == [i \in 1..Len(calls) |-> [name |-> calls[i].name, kwargs |-> calls[i].kwargs]]

IsDone(frame) == Payload(frame).step = "done"

\* overall success: a terminal done record with success true, or only success messages
StreamSuccess ==
    \E i \in 1..Len(events) : IsDone(events[i]) /\ Payload(events[i]).success
ViewSuccess ==
    /\ msgs # <<>>
    /\ \A i \in 1..Len(msgs) : msgs[i].level = "success"
OverallSuccess == IF response.kind = "stream" THEN StreamSuccess ELSE ViewSuccess

\* the client submits the same POST again, with the other Accept header
NextRequest ==
    /\ pc = "done"
    /\ request.method = "POST"
    /\ submitted < MaxRequests
    /\ prev' = [kind |-> response.kind, invocations |-> Invocations,
                success |-> OverallSuccess]
    /\ request' = [request EXCEPT !.headers =
                      IF WantsStream(request) THEN PlainHeaders ELSE StreamHeaders]
    /\ submitted' = submitted + 1
    /\ pc' = "request"
    /\ calls' = <<>>
    /\ events' = <<>>
    /\ msgs' = <<>>
    /\ response' = None
    /\ UNCHANGED <<environ, settings, fails>>

Next ==
    \/ bakery_admin_view
    \/ stream_build_running
    \/ stream_build_call
    \/ stream_build_return
    \/ stream_after_build
    \/ stream_publish_call
    \/ stream_publish_return
    \/ stream_after_sync
    \/ stream_post_call
    \/ stream_post_return
    \/ stream_post_failed
    \/ stream_done
    \/ view_build_call
    \/ view_build_return
    \/ view_publish_call
    \/ view_publish_return
    \/ view_post_call
    \/ view_post_return
    \/ NextRequest

Spec == Init /\ [][Next]_vars

TypeOK ==
    /\ pc \in {"request", "done", "s_start", "s_build_call", "s_build_wait", "s_after_build",
               "s_publish_call", "s_publish_wait", "s_after_sync", "s_post_call",
               "s_post_wait", "s_post_failed", "s_post_complete",
               "v_build", "v_build_wait", "v_publish", "v_publish_wait", "v_post",
               "v_post_wait"}
    /\ submitted \in 1..MaxRequests
    /\ \A i \in 1..Len(calls) : calls[i].name \in Commands

-----------------------------------------------------------------------------
(* Vocabulary of the properties *)

Invoked(name) == \E i \in 1..Len(calls) : calls[i].name = name
Returned(name) == \E i \in 1..Len(calls) : calls[i].name = name /\ calls[i].state = "returned"
Failed(name) == \E i \in 1..Len(calls) : calls[i].name = name /\ calls[i].state = "raised"
PostInvoked == \E c \in PostCommands : Invoked(c)
PostFailed == \E c \in PostCommands : Failed(c)
AnyFailed == \E i \in 1..Len(calls) : calls[i].state = "raised"
InProgress == {i \in 1..Len(calls) : calls[i].state = "running"}

IsPost == request.method = "POST"
BuildPublish == IsPost /\ action = Str("build_publish")
Streaming == response # None /\ response.kind = "stream"
Done == pc = "done"

Recs == [i \in 1..Len(events) |-> Payload(events[i])]
HasStatus(r, step, status) ==
    /\ "status" \in DOMAIN r
    /\ r.step = step
    /\ r.status = status
Emitted(step, status) == \E i \in 1..Len(Recs) : HasStatus(Recs[i], step, status)
DoneRecs == {i \in 1..Len(Recs) : Recs[i].step = "done"}
ErrorMsgs == {i \in 1..Len(msgs) : msgs[i].level = "error"}
Flashed(level, message) ==
    \E i \in 1..Len(msgs) : msgs[i].level = level /\ msgs[i].message = message

BucketErrorText ==
    "S3 bucket not configured. Set BAKERY_AWS_BUCKET_NAME or AWS_BUCKET_NAME in the environment."
PublishSuccessText == "Build and publish to S3 completed successfully."
BuildSuccessText == "Build completed successfully."

-----------------------------------------------------------------------------
\* C1: for a POST with action=build_publish, streaming or not, once the build
\* command has raised, neither the publish command nor the post-publish
\* command is invoked in that request.
C1_FailedBuildBlocksPublish ==
    (BuildPublish /\ (Raises("build") \/ Failed("build")))
        => (~Invoked("publish") /\ ~PostInvoked)

C1_Witness ==
    /\ Done /\ BuildPublish /\ Failed("build")
    /\ bucket_name # "" /\ Truthy(post_cmd)
    /\ submitted = 2 /\ prev.invocations = Invocations

-----------------------------------------------------------------------------
NoBucketVars ==
    /\ "BAKERY_AWS_BUCKET_NAME" \notin DOMAIN environ
    /\ "AWS_BUCKET_NAME" \notin DOMAIN environ

ConfigErrorReported ==
    IF Streaming
    THEN \E i \in 1..Len(Recs) :
            Recs[i] = [step |-> "error", message |-> "S3 bucket not configured"]
    ELSE Flashed("error", BucketErrorText)

PublishSuccessReported ==
    \/ Emitted("sync", "complete")
    \/ Flashed("success", PublishSuccessText)
    \/ \E i \in DoneRecs : Recs[i].success

BuildFailureReported ==
    IF Streaming
    THEN Recs[Len(Recs)] = [step |-> "done", success |-> FALSE, message |-> ErrText("build")]
    ELSE Flashed("error", "Build failed: " \o ErrText("build"))

\* C2 as stated: with neither bucket variable set, a build_publish POST never
\* invokes publish or the post-publish command, and the finished request
\* reports the configuration error and no publish success.
C2_Original ==
    (BuildPublish /\ NoBucketVars)
        => /\ ~Invoked("publish") /\ ~PostInvoked
           /\ ~PublishSuccessReported
           /\ Done => ConfigErrorReported

\* C2 amended: with neither bucket variable set, a build_publish POST never
\* invokes publish or the post-publish command and reports no publish
\* success; the finished request reports the configuration error when the
\* build succeeded, and the build failure (not the configuration error) when
\* the build raised.
C2_NoBucketRefusesPublish ==
    (BuildPublish /\ NoBucketVars)
        => /\ bucket_name = ""
           /\ ~Invoked("publish") /\ ~PostInvoked
           /\ ~PublishSuccessReported
           /\ (Done /\ Returned("build")) => ConfigErrorReported
           /\ (Done /\ Failed("build")) => (BuildFailureReported /\ ~ConfigErrorReported)

C2_Witness ==
    /\ Done /\ BuildPublish /\ NoBucketVars /\ Returned("build")
    /\ Streaming /\ ConfigErrorReported
    /\ Truthy(post_cmd)

-----------------------------------------------------------------------------
\* C3: when action=build_publish, the bucket is configured, build and publish
\* succeed and the post-publish command raises, the non-streaming branch keeps
\* the two success messages of build and publish and adds one warning and no
\* error message; the stream has status complete for build and sync, status
\* error for post_publish only, and its done record names the post-publish
\* step, not build or publish.
C3_PostPublishFailureKeepsSuccess ==
    (Done /\ BuildPublish /\ Returned("build") /\ Returned("publish") /\ PostFailed)
        => IF Streaming
           THEN /\ Emitted("build", "complete")
                /\ Emitted("sync", "complete")
                /\ Emitted("post_publish", "error")
                /\ \A i \in 1..Len(Recs) :
                      /\ Recs[i].step # "error"
                      /\ ("status" \in DOMAIN Recs[i] /\ Recs[i].status = "error")
                            => Recs[i].step = "post_publish"
                /\ \A i \in DoneRecs :
                      Recs[i].message = "Post-publish failed: " \o ErrText(post_cmd.v)
           ELSE /\ Len(msgs) = 3
                /\ msgs[1] = Message("success", BuildSuccessText, "")
                /\ msgs[2] = Message("success", PublishSuccessText, "")
                /\ msgs[3].level = "warning"
                /\ ErrorMsgs = {}
                /\ response = Redirect

C3_Witness ==
    /\ Done /\ BuildPublish /\ Returned("publish") /\ PostFailed
    /\ ~Streaming /\ submitted = 2 /\ ~prev.success

-----------------------------------------------------------------------------
\* C4 as stated: every finished stream ends with a record whose step is done
\* and which carries a boolean success; there is exactly one such record and
\* it is the last one.
C4_StreamEndsWithDone ==
    (Done /\ Streaming)
        => /\ events # <<>>
           /\ DoneRecs = {Len(Recs)}
           /\ "success" \in DOMAIN Recs[Len(Recs)]
           /\ Recs[Len(Recs)].success \in BOOLEAN

-----------------------------------------------------------------------------
\* C5: a command that raises is reported to the same request: the stream's
\* last record is then {step: done, success: false} with a message, and the
\* non-streaming branch, when build or publish raised, has added exactly one
\* error message and returned the redirect.
C5_FailuresAreSurfaced ==
    /\ (Streaming /\ AnyFailed /\ pc # "s_post_failed")
          => /\ Done
             /\ events # <<>>
             /\ Recs[Len(Recs)].step = "done"
             /\ Recs[Len(Recs)].success = FALSE
             /\ "message" \in DOMAIN Recs[Len(Recs)]
    /\ (IsPost /\ ~Streaming /\ (Failed("build") \/ Failed("publish")))
          => /\ Done
             /\ Cardinality(ErrorMsgs) = 1
             /\ response = Redirect

C5_Witness ==
    /\ Done /\ ~Streaming /\ Failed("publish")
    /\ submitted = 2 /\ prev.kind = "stream" /\ ~prev.success

-----------------------------------------------------------------------------
PostSetting == Get(settings, "BAKERY_POST_PUBLISH_COMMAND", None)
DefaultTitle == Str("Post-publish")

\* the documented mapping of the setting to the pair (command, label)
DocumentedPair(val) ==
    CASE val.t = "None" -> <<None, None>>
      [] val.t = "str"  -> <<val, DefaultTitle>>
      [] val.t = "dict" ->
            << IF "command" \in DOMAIN val.v THEN val.v.command ELSE None,
               IF "title" \in DOMAIN val.v THEN val.v.title ELSE DefaultTitle >>
      [] OTHER -> <<None, None>>

\* C6: _get_post_publish_command yields (c, t) for a descriptor with command c
\* and title t, (c, "Post-publish") for a descriptor without title, (s,
\* "Post-publish") for a bare string s, (None, None) for an absent or None
\* setting and for any other type; a descriptor without a command key yields
\* command None, and then no post-publish command is invoked.
C6_PostPublishCommandMapping ==
    /\ <<post_cmd, post_cmd_title>> = DocumentedPair(PostSetting)
    /\ ("BAKERY_POST_PUBLISH_COMMAND" \notin DOMAIN settings)
          => <<post_cmd, post_cmd_title>> = <<None, None>>
    /\ (IsDict(PostSetting) /\ "command" \notin DOMAIN PostSetting.v)
          => (post_cmd = None /\ ~PostInvoked)

C6_Witness ==
    /\ Done /\ BuildPublish /\ Returned("publish") /\ PostInvoked
    /\ IsDict(PostSetting) /\ "title" \notin DOMAIN PostSetting.v
    /\ Streaming
    /\ Emitted("post_publish", "complete")
    /\ \A i \in 1..Len(Recs) : Recs[i].step = "post_publish" => Recs[i].label = DefaultTitle

-----------------------------------------------------------------------------
IsSet(name) == name \in DOMAIN environ
HoldsName(name) == IsSet(name) /\ environ[name] # ""

ResolutionOrder ==
    /\ IsSet("BAKERY_AWS_BUCKET_NAME") => bucket_name = environ["BAKERY_AWS_BUCKET_NAME"]
    /\ (~IsSet("BAKERY_AWS_BUCKET_NAME") /\ IsSet("AWS_BUCKET_NAME"))
          => bucket_name = environ["AWS_BUCKET_NAME"]
    /\ NoBucketVars => bucket_name = ""

\* the publish step of a finished build_publish request whose build succeeded
\* was invoked with a non-empty bucket
PublishGivenBucket ==
    (Done /\ BuildPublish /\ Returned("build"))
        => \E i \in 1..Len(calls) :
              /\ calls[i].name = "publish"
              /\ calls[i].kwargs.aws_bucket_name = bucket_name
              /\ bucket_name # ""

\* C7 as stated: the bucket is BAKERY_AWS_BUCKET_NAME when set, else
\* AWS_BUCKET_NAME when set, else the empty string; and the publish step is
\* given a usable bucket whenever at least one of the two holds a non-empty name.
C7_Original ==
    /\ ResolutionOrder
    /\ (HoldsName("BAKERY_AWS_BUCKET_NAME") \/ HoldsName("AWS_BUCKET_NAME"))
          => PublishGivenBucket

\* C7 amended: the same resolution order; the publish step is given a usable
\* bucket whenever BAKERY_AWS_BUCKET_NAME holds a non-empty name, or is unset
\* while AWS_BUCKET_NAME holds a non-empty name.
C7_BucketResolutionOrder ==
    /\ ResolutionOrder
    /\ (\/ HoldsName("BAKERY_AWS_BUCKET_NAME")
        \/ (~IsSet("BAKERY_AWS_BUCKET_NAME") /\ HoldsName("AWS_BUCKET_NAME")))
          => PublishGivenBucket

C7_Witness ==
    /\ Done /\ BuildPublish /\ Returned("build")
    /\ ~IsSet("BAKERY_AWS_BUCKET_NAME") /\ HoldsName("AWS_BUCKET_NAME")
    /\ \E i \in 1..Len(calls) :
          calls[i].name = "publish" /\ calls[i].kwargs.aws_bucket_name = "legacy-site"

-----------------------------------------------------------------------------
\* C8: for a valid action, the stream and the non-streaming branch, given the
\* same bucket, settings and command outcomes, invoke the same commands with
\* the same arguments in the same order, and one reports overall success
\* exactly when the other does.
C8_StreamMatchesView ==
    (Done /\ IsPost /\ ValidAction(action) /\ prev # None)
        => /\ prev.kind # response.kind
           /\ {prev.kind, response.kind} = {"stream", "redirect"}
           /\ prev.invocations = Invocations
           /\ prev.success = OverallSuccess

C8_Witness ==
    /\ Done /\ BuildPublish /\ prev # None
    /\ Len(Invocations) = 3
    /\ Invocations[1].kwargs = [skip_static |-> TRUE]
    /\ OverallSuccess

-----------------------------------------------------------------------------
\* C9: the steps run one after the other in the order build, publish,
\* post-publish, report: publish is invoked only right after build returned,
\* the post-publish command only right after publish returned, at most one
\* command is in progress and it is the last one invoked, and no outcome
\* (done record, or redirect) exists while a command is in progress.
C9_StepsAreSequential ==
    /\ Cardinality(InProgress) <= 1
    /\ InProgress \subseteq {Len(calls)}
    /\ \A i \in 1..Len(calls) :
          /\ (i = 1) <=> (calls[i].name = "build")
          /\ (i = 2) <=> (calls[i].name = "publish")
          /\ (i = 3) <=> (calls[i].name \in PostCommands)
          /\ i > 1 => calls[i-1].state = "returned"
    /\ InProgress # {}
          => /\ DoneRecs = {}
             /\ response # Redirect
             /\ ~Done
    /\ Done => \A i \in 1..Len(calls) : calls[i].state \in {"returned", "raised"}

C9_Witness ==
    /\ Len(calls) = 3
    /\ InProgress = {3}
    /\ calls[2].state = "returned"
    /\ ~Streaming

-----------------------------------------------------------------------------
\* C10: a POST whose action is neither build nor build_publish, or is missing,
\* invokes no command and starts no stream, whatever its Accept header, and
\* is answered with the error message "Invalid action." and the redirect.
C10_InvalidActionRejected ==
    (IsPost /\ action \notin {Str("build"), Str("build_publish")})
        => /\ calls = <<>>
           /\ events = <<>>
           /\ ~Streaming
           /\ pc \in {"request", "done"}
           /\ Done => /\ msgs = <<Message("error", "Invalid action.", "")>>
                      /\ response = Redirect

C10_Witness ==
    /\ Done /\ IsPost /\ action = None
    /\ WantsStream(request)
    /\ response = Redirect

-----------------------------------------------------------------------------
\* what the code requires before it runs the post-publish command
PostPublishDue ==
    /\ BuildPublish
    /\ bucket_name # ""
    /\ Returned("build")
    /\ Returned("publish")
    /\ post_cmd \notin {None, Str("")}

PostRecs == {i \in 1..Len(Recs) : Recs[i].step = "post_publish"}

\* C11: the post-publish command is invoked if and only if action is
\* build_publish, the bucket name is non-empty, build and publish both
\* succeeded and the parsed post-publish command is non-empty; when it is not
\* configured, a successful build and publish ends with overall success and
\* without any post_publish record.
C11_PostPublishGating ==
    /\ (Len(calls) > 2 \/ PostInvoked \/ PostRecs # {}) => PostPublishDue
    /\ (Done /\ PostPublishDue) => (PostInvoked /\ Len(calls) = 3)
    /\ (Done /\ BuildPublish /\ Returned("publish") /\ post_cmd \in {None, Str("")})
          => /\ OverallSuccess
             /\ PostRecs = {}
             /\ Len(calls) = 2

C11_Witness ==
    /\ Done /\ BuildPublish /\ Returned("publish")
    /\ PostSetting = Str("")
    /\ Streaming /\ OverallSuccess

-----------------------------------------------------------------------------
CallsOf(name) == {i \in 1..Len(calls) : calls[i].name = name}

\* C12: in one request every command is invoked at most once, and a command
\* that raised is the last command invoked in that request.
C12_NoRetry ==
    /\ \A name \in Commands : Cardinality(CallsOf(name)) <= 1
    /\ Len(calls) <= 3
    /\ \A i \in 1..Len(calls) : calls[i].state = "raised" => i = Len(calls)

C12_Witness ==
    /\ Done /\ Streaming /\ Failed("publish")
    /\ Len(calls) = 2
    /\ Truthy(post_cmd)

-----------------------------------------------------------------------------
BuildOnlyStream ==
    << [step |-> "build", status |-> "running", label |-> Str("Build")],
       [step |-> "build", status |-> "complete", label |-> Str("Build")],
       [step |-> "done", success |-> TRUE] >>

\* C13: the stream carries a done record with success true only if no command
\* invoked in the request raised, none is still in progress and, for
\* build_publish, publish was invoked and returned; and for action build with
\* a succeeding build the finished stream is exactly build running, build
\* complete, done with success true.
C13_SuccessMeansAllSucceeded ==
    /\ StreamSuccess
          => /\ ~AnyFailed
             /\ InProgress = {}
             /\ Returned("build")
             /\ BuildPublish => Returned("publish")
    /\ (Done /\ Streaming /\ action = Str("build") /\ ~Raises("build"))
          => Recs = BuildOnlyStream

C13_Witness ==
    /\ Done /\ Streaming /\ StreamSuccess
    /\ BuildPublish /\ Len(calls) = 3

-----------------------------------------------------------------------------
StepRank(step) ==
    CASE step = "build" -> 1
      [] step = "sync" -> 2
      [] step = "post_publish" -> 3
      [] OTHER -> 4

StatusRecs == {i \in 1..Len(Recs) : "status" \in DOMAIN Recs[i]}

\* the steps whose running record is not yet followed by complete or error
OpenSteps ==
    {st \in {"build", "sync", "post_publish"} :
        /\ Emitted(st, "running")
        /\ ~Emitted(st, "complete")
        /\ ~Emitted(st, "error")}

\* the command of a step
StepInvoked(st) ==
    CASE st = "build" -> Invoked("build")
      [] st = "sync" -> Invoked("publish")
      [] st = "post_publish" -> PostInvoked
StepReturned(st) ==
    CASE st = "build" -> Returned("build")
      [] st = "sync" -> Returned("publish")
      [] st = "post_publish" -> \E c \in PostCommands : Returned(c)

\* C14: in the stream, a record with status complete or error directly
\* follows the running record of the same step; the running record of a step
\* precedes the invocation of its command and its complete record follows the
\* command's return; at most one step is open at a time; and the records
\* appear in the order build, sync, post_publish.
C14_StreamWellBracketed ==
    /\ \A i \in StatusRecs :
          Recs[i].status \in {"complete", "error"}
             => /\ i > 1
                /\ HasStatus(Recs[i-1], Recs[i].step, "running")
    /\ \A i \in StatusRecs : Recs[i].step \in {"build", "sync", "post_publish"}
    /\ \A i, j \in 1..Len(Recs) : i < j => StepRank(Recs[i].step) <= StepRank(Recs[j].step)
    /\ Cardinality(OpenSteps) <= 1
    /\ Streaming =>
          \A st \in {"build", "sync", "post_publish"} :
             /\ StepInvoked(st) => Emitted(st, "running")
             /\ Emitted(st, "complete") => StepReturned(st)

C14_Witness ==
    /\ Streaming /\ pc = "s_post_wait"
    /\ OpenSteps = {"post_publish"}
    /\ Len(Recs) = 5

-----------------------------------------------------------------------------
\* C15: for build_publish with an empty bucket name the build command is still
\* invoked, exactly once and alone; the configuration error is reported only
\* after the build returned and after its success was reported; if the build
\* raises, the build failure is reported and the configuration error is not.
C15_BucketCheckAfterBuild ==
    (BuildPublish /\ bucket_name = "")
        => /\ Len(calls) <= 1
           /\ ConfigErrorReported => Returned("build")
           /\ (Done /\ ~Raises("build"))
                 => IF Streaming
                    THEN Recs = << [step |-> "build", status |-> "running",
                                    label |-> Str("Build")],
                                   [step |-> "build", status |-> "complete",
                                    label |-> Str("Build")],
                                   [step |-> "error",
                                    message |-> "S3 bucket not configured"] >>
                    ELSE msgs = << Message("success", BuildSuccessText, ""),
                                   Message("error", BucketErrorText, "") >>
           /\ (Done /\ Raises("build"))
                 => /\ Failed("build")
                    /\ BuildFailureReported
                    /\ ~ConfigErrorReported
                    /\ ~Streaming => Len(msgs) = 1

C15_Witness ==
    /\ Done /\ BuildPublish /\ bucket_name = "" /\ IsSet("BAKERY_AWS_BUCKET_NAME")
    /\ ~Streaming /\ Returned("build")
    /\ Flashed("error", BucketErrorText)

-----------------------------------------------------------------------------
\* C16: a POST with action build never invokes publish or the post-publish
\* command, streaming or not, whatever the bucket and the post-publish
\* setting; a GET invokes no command, emits nothing, and renders the form with
\* bucket_configured true exactly when the resolved bucket name is non-empty.
C16_BuildNeverPublishes ==
    /\ (IsPost /\ action = Str("build"))
          => /\ ~Invoked("publish")
             /\ ~PostInvoked
             /\ Len(calls) <= 1
    /\ ~IsPost
          => /\ calls = <<>>
             /\ events = <<>>
             /\ msgs = <<>>
             /\ Done => /\ response.kind = "render"
                        /\ response.context.bucket_configured
                              <=> \/ HoldsName("BAKERY_AWS_BUCKET_NAME")
                                  \/ /\ ~IsSet("BAKERY_AWS_BUCKET_NAME")
                                     /\ HoldsName("AWS_BUCKET_NAME")

C16_Witness ==
    /\ Done /\ IsPost /\ action = Str("build") /\ Returned("build")
    /\ bucket_name # "" /\ Truthy(post_cmd)
    /\ Streaming /\ submitted = 2

====
